---- MODULE Spec2Model ----
(***************************************************************************)
(* A state-machine model of the Slack messaging bot: src/utils/slack.js    *)
(* (the five messaging operations, the membership guard, the message       *)
(* search with its cache, timeout and retries) and src/server.js (the      *)
(* route handlers).  Every operation is an async function; one action of   *)
(* the model is one run-to-completion segment of a handler between two     *)
(* awaits (JavaScript runs such a segment atomically).                     *)
(*                                                                         *)
(* Strings that the code inspects (channel ids, dates, times) are          *)
(* sequences of one-character strings; opaque strings (texts, error        *)
(* codes) are TLA+ strings; a composed message is the sequence of its      *)
(* parts.  A Slack ts string is [sec, frac]: the digits before the dot     *)
(* and the digits after it (frac = "" when the string has no dot).         *)
(***************************************************************************)
EXTENDS Integers, Sequences, FiniteSets, TLC

\* ------------------------------------------------------------------------
\* Program constants
\* ------------------------------------------------------------------------
MESSAGE_SEARCH_TIMEOUT == 5000
MAX_RETRIES == 2
CACHE_TTL == 30000
BACKOFF_UNIT == 500
SEARCH_WINDOW == 2
SEARCH_LIMIT == 5
LIST_LIMIT == 10

\* ------------------------------------------------------------------------
\* Bounds of the model
\* ------------------------------------------------------------------------
\* Requests started in one behaviour of Spec, which draws them from all inputs.
MaxRequests == 1
\* Requests started in one behaviour of SpecSeq, which draws them from a few.
MaxSequence == 2
\* Idle jumps of the clock (each of CACHE_TTL) in one behaviour.
MaxIdleJumps == 1
\* Requests started in one behaviour of SpecConc, by any of the processes.
MaxConcurrent == 2

\* ------------------------------------------------------------------------
\* JavaScript values
\* ------------------------------------------------------------------------
\* A JavaScript number that may be NaN; undefined is modelled apart.
Num(v) == [kind |-> "num", v |-> v]
NaN == [kind |-> "nan", v |-> 0]
Undefined == [kind |-> "undef", v |-> 0]

Digits == <<"0", "1", "2", "3", "4", "5", "6", "7", "8", "9">>
IsDigit(c) == \E i \in 1..10 : Digits[i] = c
DigitVal(c) == (CHOOSE i \in 1..10 : Digits[i] = c) - 1

RECURSIVE DecimalValue(_)
DecimalValue(s) ==
  IF s = <<>> THEN 0
  ELSE 10 * DecimalValue(SubSeq(s, 1, Len(s) - 1)) + DigitVal(s[Len(s)])

\* Number(str) on strings of digits and other printable characters: the empty
\* string is 0, a digit string its decimal value, anything else NaN.
Number(s) ==
  IF s = <<>> THEN Num(0)
  ELSE IF \A i \in 1..Len(s) : IsDigit(s[i]) THEN Num(DecimalValue(s))
  ELSE NaN

\* str.split(sep) for a one-character separator.
RECURSIVE Split(_, _)
Split(s, sep) ==
  IF \A i \in 1..Len(s) : s[i] # sep THEN <<s>>
  ELSE LET k == CHOOSE i \in 1..Len(s) :
                  s[i] = sep /\ \A j \in 1..(i - 1) : s[j] # sep
       IN <<SubSeq(s, 1, k - 1)>> \o Split(SubSeq(s, k + 1, Len(s)), sep)

\* parts.map(Number)[i], undefined past the end (array destructuring, indexing).
NumberAt(parts, i) == IF i <= Len(parts) THEN Number(parts[i]) ELSE Undefined

\* !x for a number or undefined.
Falsy(x) == x.kind # "num" \/ x.v = 0

\* ------------------------------------------------------------------------
\* Date: new Date(year, monthIndex, day, hours, minutes, seconds).getTime()
\* ------------------------------------------------------------------------
\* The host's offset from UTC in seconds (the code applies the host's local
\* time zone); the model's host runs in UTC.
HostUtcOffsetSeconds == 0

\* Days from 1970-01-01 to the first day of month m (1..12) of year y.
DaysFromCivil(y, m) ==
  LET yy == IF m <= 2 THEN y - 1 ELSE y
      era == yy \div 400
      yoe == yy - era * 400
      mp == IF m > 2 THEN m - 3 ELSE m + 9
      doy == (153 * mp + 2) \div 5
      doe == yoe * 365 + yoe \div 4 - yoe \div 100 + doy
  IN era * 146097 + doe - 719468

\* ECMAScript TimeClip: a Date holds at most 100,000,000 days either side of
\* the epoch; beyond that getTime() is NaN.
MAX_DATE_DAYS == 100000000

\* Days from the epoch to the day the Date constructor composes from year,
\* month index and day (a two-digit year is 1900 + year, a month index past 11
\* carries into the year, a day past the month's end into the next month).
DateDays(year, monthIndex, day) ==
  LET fullYear == IF year >= 0 /\ year <= 99 THEN 1900 + year ELSE year
  IN DaysFromCivil(fullYear + (monthIndex \div 12), (monthIndex % 12) + 1)
       + (day - 1)

\* isNaN(new Date(year, monthIndex, day, hours, minutes, seconds).getTime())
DateIsNaN(year, monthIndex, day, hours, minutes, seconds) ==
  LET tod == hours * 3600 + minutes * 60 + seconds - HostUtcOffsetSeconds
      days == DateDays(year, monthIndex, day) + (tod \div 86400)
  IN \/ days > MAX_DATE_DAYS
     \/ days = MAX_DATE_DAYS /\ tod % 86400 > 0
     \/ days < -MAX_DATE_DAYS

\* ECMAScript MakeDay/MakeTime/UTC: a two-digit year is 1900 + year, a month
\* index outside 0..11 carries into the year, and day, hours, minutes and
\* seconds outside their ranges carry linearly (no field is rejected).
DateEpochSeconds(year, monthIndex, day, hours, minutes, seconds) ==
  LET days == DateDays(year, monthIndex, day)
  IN days * 86400 + hours * 3600 + minutes * 60 + seconds - HostUtcOffsetSeconds

\* parseDateTime(dateStr, timeStr): [ok |-> TRUE, v |-> epoch seconds] or
\* [ok |-> FALSE, msg |-> the message of the error it throws].
parseDateTime(dateStr, timeStr) ==
  IF dateStr = <<>> \/ timeStr = <<>>
  THEN [ok |-> FALSE, v |-> 0,
        msg |-> <<"Invalid date/time format: ", "Date and time are required">>]
  ELSE
    LET dparts == Split(dateStr, "/")
        day == NumberAt(dparts, 1)
        month == NumberAt(dparts, 2)
        year == NumberAt(dparts, 3)
        tparts == Split(timeStr, ":")
    IN IF Falsy(day) \/ Falsy(month) \/ Falsy(year)
       THEN [ok |-> FALSE, v |-> 0,
             msg |-> <<"Invalid date/time format: ",
                       "Invalid date format. Use dd/mm/yyyy">>]
       ELSE IF Len(tparts) < 2
               \/ \E i \in 1..Len(tparts) : Number(tparts[i]).kind = "nan"
       THEN [ok |-> FALSE, v |-> 0,
             msg |-> <<"Invalid date/time format: ",
                       "Invalid time format. Use hh:mm or hh:mm:ss">>]
       ELSE
         LET hours == Number(tparts[1]).v
             minutes == Number(tparts[2]).v
             third == NumberAt(tparts, 3)
             seconds == IF Falsy(third) THEN 0 ELSE third.v
         IN IF DateIsNaN(year.v, month.v - 1, day.v, hours, minutes, seconds)
            THEN [ok |-> FALSE, v |-> 0,
                  msg |-> <<"Invalid date/time format: ",
                            "Invalid date or time values">>]
            ELSE [ok |-> TRUE,
                  v |-> DateEpochSeconds(year.v, month.v - 1, day.v,
                                         hours, minutes, seconds),
                  msg |-> <<>>]

\* ------------------------------------------------------------------------
\* Strings of the program and its inputs
\* ------------------------------------------------------------------------
DEFAULT_CHANNEL == <<"#", "t", "e", "s", "t">>
DEFAULT_SEND_TEXT == "Hello from InternshipBot!"
DEFAULT_SCHEDULE_TEXT == "Scheduled message from InternshipBot!"
DEFAULT_EDIT_TEXT == "Updated message from InternshipBot!"

\* A public channel the remote platform knows, and the inputs of requests.
ChannelC1 == <<"C", "1">>
RemoteChannels == {ChannelC1}
\* G9 and D9 have the shape of a channel id and are unknown to the platform.
ChannelG9 == <<"G", "9">>
ChannelD9 == <<"D", "9">>
InputChannels == {ChannelC1, ChannelG9, ChannelD9, <<>>}
InputTexts == {"hi", ""}
\* 01/01/1970 with 00:01:40 and 00:01:41 are the epoch seconds 100 and 101.
Date1970 == <<"0", "1", "/", "0", "1", "/", "1", "9", "7", "0">>
Time100 == <<"0", "0", ":", "0", "1", ":", "4", "0">>
Time101 == <<"0", "0", ":", "0", "1", ":", "4", "1">>
TimeNoColon == <<"1", "0">>
InputDates == {Date1970}
InputTimes == {Time100, Time101, TimeNoColon, <<>>}

Procs == {1, 2}
Ops == {"send", "schedule", "list", "edit", "delete"}

\* ------------------------------------------------------------------------
\* Slack ts strings, messages, cache keys
\* ------------------------------------------------------------------------
Ts(sec, frac) == [sec |-> sec, frac |-> frac]
NoTs == Ts(-1, "")
Msg(ts, text) == [ts |-> ts, text |-> text]
NoMessage == Msg(NoTs, "")

\* `${timestamp}` of an integer: its digits, no dot.
NumberToString(n) == Ts(n, "")

\* parseFloat(ts), in tenths of a second (a ts of the model has at most one
\* digit after the dot).
ParseFloatTenths(ts) == ts.sec * 10 + (IF ts.frac = "" THEN 0 ELSE DigitVal(ts.frac))

Abs(x) == IF x < 0 THEN -x ELSE x

\* `${channel}:${ts}`: the two parts of the key string.
CacheKey(channel, tsString) == [channel |-> channel, ts |-> tsString]

CacheHas(c, key) == key \in DOMAIN c
\* CacheSet overwriting the message of an entry in place and leaving the
\* entry's old timestamp.
CacheSet_MessageOnly(c, key, message, at) ==
  [k \in (DOMAIN c) \cup {key} |->
     IF k = key
     THEN [message |-> message,
           timestamp |-> IF key \in DOMAIN c THEN c[key].timestamp ELSE at]
     ELSE c[k]]

CacheSet(c, key, message, at) ==
  [k \in (DOMAIN c) \cup {key} |->
     IF k = key THEN [message |-> message, timestamp |-> at] ELSE c[k]]
CacheDelete(c, key) == [k \in (DOMAIN c) \ {key} |-> c[k]]

\* ------------------------------------------------------------------------
\* The remote platform, as the code's calls see it
\* ------------------------------------------------------------------------
\* What a call can come back with: HTTP 200 with ok:true, HTTP 200 with
\* ok:false and an error code, or a rejected request (axios throws).
Outcomes == {"ok", "api_error", "net_error"}
NET_ERROR_MESSAGE == "Network Error"
ApiErrorCode(api) ==
  CASE api = "conversations.join" -> "channel_not_found"
    [] api = "chat.postMessage" -> "not_in_channel"
    [] api = "chat.scheduleMessage" -> "time_in_past"
    [] api = "chat.update" -> "message_not_found"
    [] api = "chat.delete" -> "message_not_found"
    [] OTHER -> "invalid_auth"

\* The messages of a set, most recent first (the order conversations.history
\* answers in).
RECURSIVE NewestFirst(_)
NewestFirst(S) ==
  IF S = {} THEN <<>>
  ELSE LET m == CHOOSE x \in S :
                  \A y \in S : ParseFloatTenths(y.ts) <= ParseFloatTenths(x.ts)
       IN <<m>> \o NewestFirst(S \ {m})

Take(seq, n) == SubSeq(seq, 1, IF Len(seq) < n THEN Len(seq) ELSE n)

\* The ts is at or after, at or before, the whole second n.
TsAtLeast(ts, n) == ts.sec >= n
TsAtMost(ts, n) == ts.sec < n \/ (ts.sec = n /\ ParseFloatTenths(ts) = ts.sec * 10)

\* conversations.history with oldest, latest, inclusive: true and limit.
HistoryRange(msgs, oldest, latest, limit) ==
  Take(NewestFirst({m \in msgs : TsAtLeast(m.ts, oldest) /\ TsAtMost(m.ts, latest)}),
       limit)

\* conversations.history with a limit only.
HistoryLatest(msgs, limit) == Take(NewestFirst(msgs), limit)

\* The ts the platform gives a message posted at clock `at` (milliseconds):
\* the first one from that instant on that no message of the channel, present
\* or deleted, has had.  NoTs when the tenths of that second are used up.
FreshTs(used, at) ==
  LET sec == at \div 1000
      first == (at % 1000) \div 100
      free == {d \in first..9 : Ts(sec, Digits[d + 1]) \notin used}
  IN IF free = {} THEN NoTs
     ELSE Ts(sec, Digits[(CHOOSE d \in free : \A e \in free : d <= e) + 1])

\* ------------------------------------------------------------------------
\* One request in flight: the locals of its async call chain
\* ------------------------------------------------------------------------
NoResult == [kind |-> "none", error |-> <<>>]
Call(api, channel, ts, text, at) ==
  [api |-> api, channel |-> channel, ts |-> ts, text |-> text, at |-> at,
   res |-> "pending"]

\* pc: the await the chain is suspended at.  calls: the remote calls issued so
\* far with what each came back with ("empty": a history answer that is ok and
\* holds no message; "timeout": the search timeout won the race).  sleeps: the backoff waits requested.
\* guard: where ensureBotInChannel stands.  hit: findMessageByTimestamp answered
\* from the cache.  candidates: the messages of the last history answer.
Idle ==
  [pc |-> "idle", op |-> "none", channel |-> <<>>, text |-> "", date |-> <<>>,
   time |-> <<>>, timestamp |-> 0, message |-> NoMessage, retries |-> 0,
   result |-> NoResult, calls |-> <<>>, sleeps |-> <<>>, deadline |-> 0,
   guard |-> "none", hit |-> FALSE, candidates |-> <<>>]

Issue(st, call, pc) == [st EXCEPT !.calls = Append(@, call), !.pc = pc]
\* The last call issued comes back with `res`.
Settle(st, res) == [st EXCEPT !.calls[Len(st.calls)].res = res]
LastCall(st) == st.calls[Len(st.calls)]

OpPrefix(op) ==
  CASE op = "send" -> "Send message failed: "
    [] op = "schedule" -> "Schedule message failed: "
    [] op = "list" -> "Retrieve messages failed: "
    [] op = "edit" -> "Edit message failed: "
    [] op = "delete" -> "Delete message failed: "

\* The operation's catch block: every error leaves as one Error whose message
\* is the operation's prefix and the message of the error caught.
Fail(st, msg) ==
  [st EXCEPT !.pc = "done", !.deadline = 0,
             !.result = [kind |-> "error", error |-> <<OpPrefix(st.op)>> \o msg]]
Succeed(st) ==
  [st EXCEPT !.pc = "done", !.deadline = 0,
             !.result = [kind |-> "ok", error |-> <<>>]]

\* ------------------------------------------------------------------------
\* slack.js, as functions from the locals (and the cache) to the locals (and
\* the cache) at the next await
\* ------------------------------------------------------------------------
\* IsValidShape testing only that the channel is there.
IsValidShape_AnyNonEmpty(channel) == channel # <<>>

\* ensureBotInChannel's shape check: channel && ['C','G','D'].includes(channel[0]).
IsValidShape(channel) == channel # <<>> /\ channel[1] \in {"C", "G", "D"}

INVALID_CHANNEL_MESSAGE ==
  "Invalid channel ID format. Must start with C (public), G (private), or D (DM)"
NOT_FOUND_MESSAGE == "Message not found at the specified time"
TIMED_OUT_MESSAGE == "Message search timed out"

\* ensureBotInChannel up to its first await: the shape check, then
\* isBotInChannel's auth.test.
EnsureStart(st) ==
  IF ~IsValidShape(st.channel)
  THEN Fail([st EXCEPT !.guard = "failed"], <<INVALID_CHANNEL_MESSAGE>>)
  ELSE Issue([st EXCEPT !.guard = "running"],
             Call("auth.test", <<>>, NoTs, "", 0), "auth_wait")

\* isBotInChannel returned false: joinChannel's conversations.join.
JoinStart(st) ==
  Issue(st, Call("conversations.join", st.channel, NoTs, "", 0), "join_wait")

\* editMessage and deleteMessage once findMessageByTimestamp has returned
\* st.message: the chat.update or chat.delete call.
WriteFound(st) ==
  IF st.op = "edit"
  THEN Issue(st, Call("chat.update", st.channel, st.message.ts,
                      IF st.text = "" THEN DEFAULT_EDIT_TEXT ELSE st.text, 0),
             "update_wait")
  ELSE Issue(st, Call("chat.delete", st.channel, st.message.ts, "", 0),
             "delete_wait")

\* One iteration of the retry loop up to its await: the history query over
\* [timestamp - 2, timestamp + 2] raced against the timeout.
SearchAttempt(st, clock) ==
  [Issue(st, Call("conversations.history", st.channel, NoTs, "", st.timestamp),
         "search_wait")
     EXCEPT !.deadline = clock + MESSAGE_SEARCH_TIMEOUT]

\* AttemptFailed giving up one attempt early (retries >= MAX_RETRIES).
AttemptFailed_OneAttemptShort(st, msg, clock) ==
  LET n == st.retries + 1
  IN IF n >= MAX_RETRIES
     THEN Fail([st EXCEPT !.retries = n], <<"Failed to find message: ", msg>>)
     ELSE [st EXCEPT !.retries = n, !.pc = "backoff",
                     !.sleeps = Append(@, BACKOFF_UNIT * n),
                     !.deadline = clock + BACKOFF_UNIT * n]

\* The loop's catch block: count the failure, give up past MAX_RETRIES, else
\* sleep 500 * retries.
AttemptFailed(st, msg, clock) ==
  LET n == st.retries + 1
  IN IF n > MAX_RETRIES
     THEN Fail([st EXCEPT !.retries = n], <<"Failed to find message: ", msg>>)
     ELSE [st EXCEPT !.retries = n, !.pc = "backoff",
                     !.sleeps = Append(@, BACKOFF_UNIT * n),
                     !.deadline = clock + BACKOFF_UNIT * n]

\* Closer with curr winning ties (<= for <).
Closer_LastWinsTies(prev, curr, timestamp) ==
  LET prevDiff == Abs(ParseFloatTenths(prev.ts) - timestamp * 10)
      currDiff == Abs(ParseFloatTenths(curr.ts) - timestamp * 10)
  IN IF currDiff <= prevDiff THEN curr ELSE prev

\* The reducer of messages.reduce: curr replaces prev only when strictly closer.
Closer(prev, curr, timestamp) ==
  LET prevDiff == Abs(ParseFloatTenths(prev.ts) - timestamp * 10)
      currDiff == Abs(ParseFloatTenths(curr.ts) - timestamp * 10)
  IN IF currDiff < prevDiff THEN curr ELSE prev

\* messages.reduce(reducer) over the first n messages, without initial value.
RECURSIVE ReduceClosest(_, _, _)
ReduceClosest(messages, n, timestamp) ==
  IF n = 1 THEN messages[1]
  ELSE Closer(ReduceClosest(messages, n - 1, timestamp), messages[n], timestamp)

ClosestMessage(messages, timestamp) ==
  ReduceClosest(messages, Len(messages), timestamp)

\* IsFresh with an entry still served at the very end of its CACHE_TTL.
IsFresh_Inclusive(entry, clock) == clock - entry.timestamp <= CACHE_TTL

\* The cache's freshness test: Date.now() - cached.timestamp < CACHE_TTL.
IsFresh(entry, clock) == clock - entry.timestamp < CACHE_TTL

\* findMessageByTimestamp up to its first await or its return: the cache
\* lookup under `${channel}:${timestamp}`, a stale entry deleted, then the
\* first attempt.
FindStart(st, c, clock) ==
  LET key == CacheKey(st.channel, NumberToString(st.timestamp))
  IN IF CacheHas(c, key) /\ IsFresh(c[key], clock)
     THEN [st |-> WriteFound([st EXCEPT !.message = c[key].message,
                                        !.hit = TRUE]),
           cache |-> c]
     ELSE [st |-> SearchAttempt(st, clock),
           cache |-> IF CacheHas(c, key) THEN CacheDelete(c, key) ELSE c]

\* A history answer with messages: pick the closest, cache it under the target
\* key, return it.
FindAnswered(st, messages, c, clock) ==
  LET closest == ClosestMessage(messages, st.timestamp)
  IN [st |-> WriteFound([st EXCEPT !.message = closest, !.deadline = 0,
                                   !.candidates = messages]),
      cache |-> CacheSet(c, CacheKey(st.channel, NumberToString(st.timestamp)),
                         closest, clock)]

\* ensureBotInChannel has returned true: of its calls the log keeps what the
\* last one (the one that decided) came back with; the earlier answers went out
\* of scope with isBotInChannel's locals.
Returned(calls) ==
  [i \in DOMAIN calls |->
     IF i < Len(calls) THEN [calls[i] EXCEPT !.res = "returned"] ELSE calls[i]]

\* The operation after `await ensureBotInChannel(channel)` returned.
AfterGuard(st0, c, clock) ==
  LET st == [st0 EXCEPT !.guard = "ok", !.calls = Returned(@)]
      parsed == parseDateTime(st.date, st.time)
  IN CASE st.op = "send" ->
            [st |-> Issue(st, Call("chat.postMessage", st.channel, NoTs,
                                   IF st.text = "" THEN DEFAULT_SEND_TEXT
                                   ELSE st.text, 0), "post_wait"),
             cache |-> c]
       [] st.op = "list" ->
            [st |-> Issue(st, Call("conversations.history", st.channel, NoTs,
                                   "", 0), "list_wait"),
             cache |-> c]
       [] st.op = "schedule" ->
            IF ~parsed.ok THEN [st |-> Fail(st, parsed.msg), cache |-> c]
            ELSE [st |-> Issue([st EXCEPT !.timestamp = parsed.v],
                               Call("chat.scheduleMessage", st.channel, NoTs,
                                    IF st.text = "" THEN DEFAULT_SCHEDULE_TEXT
                                    ELSE st.text, parsed.v), "schedule_wait"),
                  cache |-> c]
       [] st.op \in {"edit", "delete"} ->
            IF ~parsed.ok THEN [st |-> Fail(st, parsed.msg), cache |-> c]
            ELSE FindStart([st EXCEPT !.timestamp = parsed.v], c, clock)

\* getMessages' forEach: every message of the answer cached under its own ts.
RECURSIVE CacheAll(_, _, _, _)
CacheAll(c, channel, messages, clock) ==
  IF messages = <<>> THEN c
  ELSE CacheAll(CacheSet(c, CacheKey(channel, messages[1].ts), messages[1], clock),
                channel, Tail(messages), clock)

\* ------------------------------------------------------------------------
\* State
\* ------------------------------------------------------------------------
VARIABLES
  proc,       \* proc[p]: the request process p is handling (Idle when none)
  cache,      \* messageCache: key -> [message, timestamp]
  now,        \* Date.now(), milliseconds
  history,    \* remote: the messages of each channel
  member,     \* remote: the channels the bot is a member of
  deleted,    \* remote: the <<channel, ts>> of messages chat.delete removed
  abandoned,  \* history queries still in flight whose attempt timed out
  started,    \* requests started so far
  idleJumps   \* idle jumps of the clock so far

vars == <<proc, cache, now, history, member, deleted, abandoned, started, idleJumps>>

EmptyCache == [k \in {} |-> 0]
StartClock == 102 * 1000

\* The histories of channel C1 a behaviour may start from.  The platform's ts
\* strings all have a fractional part ("1512085950.000216").
InitialHistories ==
  { {},
    {Msg(Ts(100, "0"), "m1")},
    {Msg(Ts(99, "5"), "m1"), Msg(Ts(100, "5"), "m2")},
    {Msg(Ts(100, "0"), "m1"), Msg(Ts(103, "0"), "m2")},
    {Msg(Ts(100, "0"), "m1"), Msg(Ts(101, "6"), "m2"), Msg(Ts(101, "7"), "m3"),
     Msg(Ts(101, "8"), "m4"), Msg(Ts(101, "9"), "m5"), Msg(Ts(102, "0"), "m6")} }

InitWith(histories) ==
  /\ proc = [p \in Procs |-> Idle]
  /\ cache = EmptyCache
  /\ now = StartClock
  /\ history \in [RemoteChannels -> histories]
  /\ member \in SUBSET RemoteChannels
  /\ deleted = {}
  /\ abandoned = 0
  /\ started = 0
  /\ idleJumps = 0

Init == InitWith(InitialHistories)

Remote == <<history, member, deleted>>
Counters == <<abandoned, started, idleJumps>>

\* ------------------------------------------------------------------------
\* Requests: the route handlers of server.js and the exported functions
\* ------------------------------------------------------------------------
Request(op, channel, text, date, time) ==
  [Idle EXCEPT !.op = op, !.channel = channel, !.text = text, !.date = date,
               !.time = time]

\* The fields an operation reads; the others stay empty.
ArgsOf(op, channels, texts, dates, times) ==
  { Request(op, ch, tx, d, t) :
      ch \in channels,
      tx \in IF op = "list" \/ op = "delete" THEN {""} ELSE texts,
      d \in IF op = "send" \/ op = "list" THEN {<<>>} ELSE dates,
      t \in IF op = "send" \/ op = "list" THEN {<<>>} ELSE times }

\* The handler's check of the body: the 400 answer's message, "" when it passes.
RouteValidation(r) ==
  CASE r.op = "send" -> IF r.text = "" THEN "Text is required" ELSE ""
    [] r.op = "schedule" ->
         IF r.text = "" \/ r.date = <<>> \/ r.time = <<>>
         THEN "Text, date and time are required" ELSE ""
    [] r.op = "edit" ->
         IF r.date = <<>> \/ r.time = <<>> \/ r.text = ""
         THEN "Date, time and new text are required" ELSE ""
    [] r.op = "delete" ->
         IF r.date = <<>> \/ r.time = <<>>
         THEN "Date and time are required" ELSE ""
    [] OTHER -> ""

\* channel || "#test"
RouteChannel(channel) == IF channel = <<>> THEN DEFAULT_CHANNEL ELSE channel

\* An HTTP request arrives: the handler validates the body and calls the
\* operation, which runs to its first await.
Route(p, r, max) ==
  /\ proc[p].pc = "idle"
  /\ started < max
  /\ started' = started + 1
  /\ proc' = [proc EXCEPT ![p] =
       IF RouteValidation(r) # ""
       THEN [r EXCEPT !.pc = "done",
                      !.result = [kind |-> "invalid_input",
                                  error |-> <<RouteValidation(r)>>]]
       ELSE EnsureStart([r EXCEPT !.channel = RouteChannel(r.channel)])]
  /\ UNCHANGED <<cache, now, Remote, abandoned, idleJumps>>

\* An exported function of slack.js is called directly.
DirectCall(p, r, max) ==
  /\ proc[p].pc = "idle"
  /\ started < max
  /\ started' = started + 1
  /\ proc' = [proc EXCEPT ![p] = EnsureStart(r)]
  /\ UNCHANGED <<cache, now, Remote, abandoned, idleJumps>>

\* The answer has been sent; the call chain's locals are gone.
Respond(p) ==
  /\ proc[p].pc = "done"
  /\ proc' = [proc EXCEPT ![p] = Idle]
  /\ UNCHANGED <<cache, now, Remote, Counters>>

\* ------------------------------------------------------------------------
\* ensureBotInChannel
\* ------------------------------------------------------------------------
\* auth.test comes back: a rejected request makes isBotInChannel return false
\* (join next); otherwise conversations.members is asked.
AuthResponse(p, outcome) ==
  /\ proc[p].pc = "auth_wait"
  /\ LET st == Settle(proc[p], outcome)
     IN proc' = [proc EXCEPT ![p] =
          IF outcome = "net_error" THEN JoinStart(st)
          ELSE Issue(st, Call("conversations.members", st.channel, NoTs, "", 0),
                     "members_wait")]
  /\ UNCHANGED <<cache, now, Remote, Counters>>

\* IsBotInChannel answering true whenever both calls answered ok.
IsBotInChannel_MemberListIgnored(st, outcome, members) ==
  /\ outcome = "ok"
  /\ st.calls[1].res = "ok"

\* IsBotInChannel looking for the channel in the bot's memberships whatever
\* auth.test answered.
IsBotInChannel_IdentityIgnored(st, outcome, members) ==
  /\ outcome = "ok"
  /\ st.channel \in members

\* res.data.members.includes(botId): true only when both calls answered ok and
\* the bot is in the list; an answer without a member list throws, which the
\* catch turns into false.
IsBotInChannel(st, outcome, members) ==
  /\ outcome = "ok"
  /\ st.calls[1].res = "ok"
  /\ st.channel \in members

\* conversations.members comes back.
MembersResponse(p, outcome) ==
  /\ proc[p].pc = "members_wait"
  /\ LET st == Settle(proc[p], outcome)
         next == IF IsBotInChannel(st, outcome, member)
                 THEN AfterGuard(st, cache, now)
                 ELSE [st |-> JoinStart(st), cache |-> cache]
     IN /\ proc' = [proc EXCEPT ![p] = next.st]
        /\ cache' = next.cache
  /\ UNCHANGED <<now, Remote, Counters>>

\* JoinResult with a failed join logged and not thrown.
JoinResult_FailureSwallowed(st, outcome, c, clock) == AfterGuard(st, c, clock)

\* joinChannel's answer handling: ok:true returns, anything else throws
\* "Failed to join channel: <reason>".
JoinResult(st, outcome, c, clock) ==
  IF outcome = "ok" THEN AfterGuard(st, c, clock)
  ELSE [st |-> Fail([st EXCEPT !.guard = "failed"],
                    <<"Failed to join channel: ",
                      IF outcome = "api_error"
                      THEN ApiErrorCode("conversations.join")
                      ELSE NET_ERROR_MESSAGE>>),
        cache |-> c]

\* conversations.join comes back.
JoinResponse(p, outcome) ==
  /\ proc[p].pc = "join_wait"
  /\ outcome = "ok" => proc[p].channel \in RemoteChannels
  /\ LET st == Settle(proc[p], outcome)
         next == JoinResult(st, outcome, cache, now)
     IN /\ proc' = [proc EXCEPT ![p] = next.st]
        /\ cache' = next.cache
  /\ member' = IF outcome = "ok" THEN member \cup {proc[p].channel} ELSE member
  /\ UNCHANGED <<now, history, deleted, Counters>>

\* ------------------------------------------------------------------------
\* The operations' remote calls coming back
\* ------------------------------------------------------------------------
\* WriteFailed issuing the failed call a second time before giving up.
WriteFailed_RetriedOnce(st, outcome) ==
  IF Cardinality({i \in DOMAIN st.calls : st.calls[i].api = LastCall(st).api}) < 2
  THEN Issue(st, [LastCall(st) EXCEPT !.res = "pending"], st.pc)
  ELSE Fail(st, <<IF outcome = "api_error" THEN ApiErrorCode(LastCall(st).api)
                  ELSE NET_ERROR_MESSAGE>>)

\* if (!res.data.ok) throw new Error(res.data.error || ...), or axios threw.
WriteFailed(st, outcome) ==
  Fail(st, <<IF outcome = "api_error" THEN ApiErrorCode(LastCall(st).api)
             ELSE NET_ERROR_MESSAGE>>)

UsedTs(channel) ==
  {m.ts : m \in history[channel]} \cup {d[2] : d \in {e \in deleted : e[1] = channel}}

\* chat.postMessage comes back (sendMessage).
PostResponse(p, outcome) ==
  /\ proc[p].pc = "post_wait"
  /\ LET st == Settle(proc[p], outcome)
         ts == FreshTs(UsedTs(st.channel), now)
     IN IF outcome = "ok"
        THEN /\ ts # NoTs
             /\ history' = [history EXCEPT ![st.channel] =
                              @ \cup {Msg(ts, LastCall(st).text)}]
             /\ proc' = [proc EXCEPT ![p] = Succeed(st)]
        ELSE /\ history' = history
             /\ proc' = [proc EXCEPT ![p] = WriteFailed(st, outcome)]
  /\ UNCHANGED <<cache, now, member, deleted, Counters>>

\* chat.scheduleMessage comes back (scheduleMessage).
ScheduleResponse(p, outcome) ==
  /\ proc[p].pc = "schedule_wait"
  /\ LET st == Settle(proc[p], outcome)
     IN proc' = [proc EXCEPT ![p] =
          IF outcome = "ok" THEN Succeed(st) ELSE WriteFailed(st, outcome)]
  /\ UNCHANGED <<cache, now, Remote, Counters>>

\* getMessages after its history call: throw on failure, else cache every
\* message and return the envelope.
ListResult(st, outcome, messages, c, clock) ==
  IF outcome = "ok"
  THEN [st |-> Succeed([st EXCEPT !.candidates = messages]),
        cache |-> CacheAll(c, st.channel, messages, clock)]
  ELSE [st |-> WriteFailed(st, outcome), cache |-> c]

\* conversations.history (limit 10) comes back (getMessages).
ListResponse(p, outcome) ==
  /\ proc[p].pc = "list_wait"
  /\ LET st == Settle(proc[p], outcome)
         next == ListResult(st, outcome,
                            HistoryLatest(history[st.channel], LIST_LIMIT),
                            cache, now)
     IN /\ proc' = [proc EXCEPT ![p] = next.st]
        /\ cache' = next.cache
  /\ UNCHANGED <<now, Remote, Counters>>

\* EditResult with the entry written under the key of the search,
\* `${channel}:${timestamp}`, instead of the message's own ts.
EditResult_KeyedByTarget(st, outcome, c, clock) ==
  IF outcome = "ok"
  THEN [st |-> Succeed(st),
        cache |-> CacheSet(c, CacheKey(st.channel, NumberToString(st.timestamp)),
                           [st.message EXCEPT !.text = st.text], clock)]
  ELSE [st |-> WriteFailed(st, outcome), cache |-> c]

\* editMessage after chat.update: throw on failure, else overwrite the cache
\* entry under `${channel}:${message.ts}` with { ...message, text: newText }.
EditResult(st, outcome, c, clock) ==
  IF outcome = "ok"
  THEN [st |-> Succeed(st),
        cache |-> CacheSet(c, CacheKey(st.channel, st.message.ts),
                           [st.message EXCEPT !.text = st.text], clock)]
  ELSE [st |-> WriteFailed(st, outcome), cache |-> c]

\* chat.update comes back; the platform answers ok only for a message it has.
UpdateResponse(p, outcome) ==
  /\ proc[p].pc = "update_wait"
  /\ LET st == Settle(proc[p], outcome)
         call == LastCall(st)
         next == EditResult(st, outcome, cache, now)
     IN /\ outcome = "ok" => \E m \in history[st.channel] : m.ts = call.ts
        /\ proc' = [proc EXCEPT ![p] = next.st]
        /\ cache' = next.cache
        /\ history' = IF outcome = "ok"
                      THEN [history EXCEPT ![st.channel] =
                              {IF m.ts = call.ts THEN Msg(m.ts, call.text) ELSE m :
                                 m \in @}]
                      ELSE history
  /\ UNCHANGED <<now, member, deleted, Counters>>

\* DeleteResult removing the cache entry before it looks at the answer.
DeleteResult_RemovesBeforeCheck(st, outcome, c) ==
  [st |-> IF outcome = "ok" THEN Succeed(st) ELSE WriteFailed(st, outcome),
   cache |-> CacheDelete(c, CacheKey(st.channel, st.message.ts))]

\* deleteMessage after chat.delete: throw on failure, else delete the cache
\* entry under `${channel}:${message.ts}`.
DeleteResult(st, outcome, c) ==
  IF outcome = "ok"
  THEN [st |-> Succeed(st),
        cache |-> CacheDelete(c, CacheKey(st.channel, st.message.ts))]
  ELSE [st |-> WriteFailed(st, outcome), cache |-> c]

\* chat.delete comes back; the platform answers ok only for a message it has.
DeleteResponse(p, outcome) ==
  /\ proc[p].pc = "delete_wait"
  /\ LET st == Settle(proc[p], outcome)
         call == LastCall(st)
         next == DeleteResult(st, outcome, cache)
     IN /\ outcome = "ok" => \E m \in history[st.channel] : m.ts = call.ts
        /\ proc' = [proc EXCEPT ![p] = next.st]
        /\ cache' = next.cache
        /\ history' = IF outcome = "ok"
                      THEN [history EXCEPT ![st.channel] =
                              {m \in @ : m.ts # call.ts}]
                      ELSE history
        /\ deleted' = IF outcome = "ok"
                      THEN deleted \cup {<<st.channel, call.ts>>}
                      ELSE deleted
  /\ UNCHANGED <<now, member, Counters>>

\* ------------------------------------------------------------------------
\* findMessageByTimestamp's retry loop
\* ------------------------------------------------------------------------
\* SearchResult with a rejected request ending the search at once.
SearchResult_AbortOnNetworkError(st, outcome, messages, c, clock) ==
  IF outcome = "ok" /\ messages # <<>>
  THEN FindAnswered(st, messages, c, clock)
  ELSE IF outcome = "net_error"
  THEN [st |-> Fail(st, <<"Failed to find message: ", NET_ERROR_MESSAGE>>),
        cache |-> c]
  ELSE [st |-> AttemptFailed([st EXCEPT !.candidates = <<>>], NOT_FOUND_MESSAGE,
                             clock),
        cache |-> c]

\* The loop body after the race was won by the history call: not ok, no
\* messages or an empty list throw NOT_FOUND_MESSAGE into the catch block; a
\* rejected request lands there with axios' message.
SearchResult(st, outcome, messages, c, clock) ==
  IF outcome = "ok" /\ messages # <<>>
  THEN FindAnswered(st, messages, c, clock)
  ELSE [st |-> AttemptFailed([st EXCEPT !.candidates = <<>>],
                             IF outcome = "net_error" THEN NET_ERROR_MESSAGE
                             ELSE NOT_FOUND_MESSAGE, clock),
        cache |-> c]

\* The history query of the current attempt comes back before the timeout.
SearchResponse(p, outcome) ==
  /\ proc[p].pc = "search_wait"
  /\ now < proc[p].deadline
  /\ LET messages == HistoryRange(history[proc[p].channel],
                                  proc[p].timestamp - SEARCH_WINDOW,
                                  proc[p].timestamp + SEARCH_WINDOW, SEARCH_LIMIT)
         st == Settle(proc[p], IF outcome = "ok" /\ messages = <<>> THEN "empty"
                               ELSE outcome)
         next == SearchResult(st, outcome, messages, cache, now)
     IN /\ proc' = [proc EXCEPT ![p] = next.st]
        /\ cache' = next.cache
  /\ UNCHANGED <<now, Remote, Counters>>

\* The timeout wins the race: the attempt fails and its history query stays in
\* flight, no longer awaited.
SearchTimeout(p) ==
  /\ proc[p].pc = "search_wait"
  /\ now >= proc[p].deadline
  /\ proc' = [proc EXCEPT ![p] =
       AttemptFailed(Settle(proc[p], "timeout"), TIMED_OUT_MESSAGE, now)]
  /\ abandoned' = abandoned + 1
  /\ UNCHANGED <<cache, now, Remote, started, idleJumps>>

\* sleep(500 * retries) is over: the next attempt.
BackoffDone(p) ==
  /\ proc[p].pc = "backoff"
  /\ now >= proc[p].deadline
  /\ proc' = [proc EXCEPT ![p] = SearchAttempt(proc[p], now)]
  /\ UNCHANGED <<cache, now, Remote, Counters>>

\* An abandoned history query comes back; nobody reads it.
AbandonedResponse ==
  /\ abandoned > 0
  /\ abandoned' = abandoned - 1
  /\ UNCHANGED <<proc, cache, now, Remote, started, idleJumps>>

\* ------------------------------------------------------------------------
\* Time
\* ------------------------------------------------------------------------
\* PendingDeadlines without the search's timeout timer: only the backoff sleeps
\* are timers.
PendingDeadlines_SleepsOnly ==
  {proc[p].deadline : p \in {q \in Procs : proc[q].pc = "backoff"}}

PendingDeadlines ==
  {proc[p].deadline : p \in {q \in Procs : proc[q].pc \in {"search_wait", "backoff"}}}

\* Time passes up to the next timer that is due.
Tick ==
  /\ PendingDeadlines # {}
  /\ \A d \in PendingDeadlines : d > now
  /\ now' = CHOOSE d \in PendingDeadlines : \A e \in PendingDeadlines : d <= e
  /\ UNCHANGED <<proc, cache, Remote, Counters>>

\* Between requests, a long time (one CACHE_TTL) passes.
IdleJump ==
  /\ \A p \in Procs : proc[p].pc = "idle"
  /\ idleJumps < MaxIdleJumps
  /\ idleJumps' = idleJumps + 1
  /\ now' = now + CACHE_TTL
  /\ UNCHANGED <<proc, cache, Remote, abandoned, started>>

\* ------------------------------------------------------------------------
\* Specifications
\* ------------------------------------------------------------------------
AllRequests ==
  UNION {ArgsOf(op, InputChannels, InputTexts, InputDates, InputTimes) : op \in Ops}

\* What process p can do, with requests drawn from reqs, at most max of them.
Step(p, reqs, max) ==
  \/ \E r \in reqs : Route(p, r, max)
  \/ \E r \in reqs : DirectCall(p, r, max)
  \/ Respond(p)
  \/ \E o \in Outcomes : AuthResponse(p, o)
  \/ \E o \in Outcomes : MembersResponse(p, o)
  \/ \E o \in Outcomes : JoinResponse(p, o)
  \/ \E o \in Outcomes : PostResponse(p, o)
  \/ \E o \in Outcomes : ScheduleResponse(p, o)
  \/ \E o \in Outcomes : ListResponse(p, o)
  \/ \E o \in Outcomes : UpdateResponse(p, o)
  \/ \E o \in Outcomes : DeleteResponse(p, o)
  \/ \E o \in Outcomes : SearchResponse(p, o)
  \/ SearchTimeout(p)
  \/ BackoffDone(p)

\* The process of the sequential specifications: the least process id.
Worker == CHOOSE p \in Procs : \A q \in Procs : p <= q

\* One process, one request of any kind.
Next == Step(Worker, AllRequests, MaxRequests) \/ Tick

Spec == Init /\ [][Next]_vars

\* The event loop runs every timer that is due: time reaches the next deadline,
\* the timeout of a pending search fires, a backoff sleep ends.  The remote
\* platform is under no obligation to answer.
TimersFire ==
  /\ WF_vars(Tick)
  /\ WF_vars(SearchTimeout(Worker))
  /\ WF_vars(BackoffDone(Worker))

SpecLive == Init /\ [][Next]_vars /\ TimersFire

\* One process handling requests one after the other on channel C1, all with
\* the same date and time, with idle time between them.
SeqRequests ==
  UNION {ArgsOf(op, {ChannelC1}, {"hi"}, {Date1970}, {Time100}) : op \in Ops}

InitSeq ==
  InitWith({ {Msg(Ts(100, "0"), "m1")},
             {Msg(Ts(99, "5"), "m1"), Msg(Ts(100, "5"), "m2")} })

NextSeq ==
  Step(Worker, SeqRequests, MaxSequence) \/ Tick \/ IdleJump \/ AbandonedResponse

SpecSeq == InitSeq /\ [][NextSeq]_vars

\* The requests of SpecConc: any operation for the first process, listings
\* for the others.
ConcRequests(p) ==
  IF p = Worker THEN SeqRequests ELSE {r \in SeqRequests : r.op = "list"}

\* Every process handling requests on channel C1, overlapping at their awaits.
NextConc == (\E p \in Procs : Step(p, ConcRequests(p), MaxConcurrent)) \/ Tick

SpecConc == InitSeq /\ [][NextConc]_vars

\* Dates and a time for the requests of SpecParse: days that their month does
\* not have, a leap day, and a year past the range of Date.
Date31Feb2024 == <<"3", "1", "/", "0", "2", "/", "2", "0", "2", "4">>
Date31Apr2024 == <<"3", "1", "/", "0", "4", "/", "2", "0", "2", "4">>
Date29Feb2023 == <<"2", "9", "/", "0", "2", "/", "2", "0", "2", "3">>
Date29Feb2024 == <<"2", "9", "/", "0", "2", "/", "2", "0", "2", "4">>
DateYear300000 == <<"0", "1", "/", "0", "1", "/", "3", "0", "0", "0", "0", "0">>
Time1430 == <<"1", "4", ":", "3", "0">>
ParseDates ==
  {Date1970, Date31Feb2024, Date31Apr2024, Date29Feb2023, Date29Feb2024,
   DateYear300000}

\* One process, one request on channel C1 with any of these dates.
ParseRequests ==
  UNION {ArgsOf(op, {ChannelC1}, {"hi"}, ParseDates, {Time100, Time1430}) : op \in Ops}

NextParse == Step(Worker, ParseRequests, MaxRequests) \/ Tick

SpecParse == InitSeq /\ [][NextParse]_vars

\* ------------------------------------------------------------------------
\* Properties
\* ------------------------------------------------------------------------
\* Process p's findMessageByTimestamp returns from the cache in this step.
CacheHitStep(p) ==
  /\ proc[p].pc \in {"members_wait", "join_wait"}
  /\ proc'[p].pc \in {"update_wait", "delete_wait"}
  /\ proc'[p].hit

\* C1: once deleteMessage has succeeded, no later findMessageByTimestamp on
\* that channel returns the deleted message from the cache.
C1_DeletedMessageNeverServedFromCache ==
  [][\A p \in Procs :
       CacheHitStep(p) =>
         <<proc'[p].channel, proc'[p].message.ts>> \notin deleted]_vars

\* C2: when editMessage has succeeded, its chat.update call carried the ts of
\* the message findMessageByTimestamp returned, and the cache entry under
\* (channel, that ts) is that message with text = newText, cached now.
C2_EditUpdatesFoundMessageAndItsCacheEntry ==
  \A p \in Procs :
    LET st == proc[p]
    IN (st.op = "edit" /\ st.pc = "done" /\ st.result.kind = "ok") =>
         LET call == LastCall(st)
             key == CacheKey(st.channel, st.message.ts)
         IN /\ call.api = "chat.update" /\ call.res = "ok"
            /\ call.ts = st.message.ts
            /\ st.hit \/ \E i \in DOMAIN st.candidates : st.candidates[i] = st.message
            /\ CacheHas(cache, key)
            /\ cache[key] = [message |-> Msg(st.message.ts, st.text),
                             timestamp |-> now]

\* An edit succeeded on a message whose ts is not the string of the target.
C2_Witness ==
  \E p \in Procs :
    /\ proc[p].op = "edit" /\ proc[p].pc = "done" /\ proc[p].result.kind = "ok"
    /\ ~proc[p].hit
    /\ proc[p].message.ts # NumberToString(proc[p].timestamp)

\* The history calls of p's findMessageByTimestamp, in order.
Searches(st) ==
  IF st.op \in {"edit", "delete"}
  THEN SelectSeq(st.calls, LAMBDA c : c.api = "conversations.history")
  ELSE <<>>

FindFailure(st, msg) == <<OpPrefix(st.op), "Failed to find message: ", msg>>

\* C3: a findMessageByTimestamp whose history queries all answer with no
\* message makes exactly 3 queries, sleeps 500 ms after the first and 1000 ms
\* after the second, and fails right after the third with the not-found error.
C3_EmptyAnswersFailAfterThreeAttempts ==
  \A p \in Procs :
    LET st == proc[p]
        s == Searches(st)
    IN (/\ s # <<>>
        /\ \A i \in 1..(Len(s) - 1) : s[i].res = "empty"
        /\ s[Len(s)].res \in {"empty", "pending"}) =>
         /\ Len(s) <= 3
         /\ st.pc \in {"search_wait", "backoff", "done"}
         /\ st.pc = "search_wait" =>
              /\ s[Len(s)].res = "pending"
              /\ st.sleeps = SubSeq(<<500, 1000>>, 1, Len(s) - 1)
         /\ st.pc = "backoff" =>
              /\ Len(s) < 3
              /\ st.sleeps = SubSeq(<<500, 1000>>, 1, Len(s))
         /\ st.pc = "done" =>
              /\ Len(s) = 3
              /\ st.sleeps = <<500, 1000>>
              /\ st.result.kind = "error"
              /\ st.result.error =
                   FindFailure(st, "Message not found at the specified time")

\* A search failed after three empty answers.
C3_Witness ==
  \E p \in Procs :
    /\ proc[p].pc = "done"
    /\ Len(Searches(proc[p])) = 3
    /\ \A i \in 1..3 : Searches(proc[p])[i].res = "empty"

\* The message of the error a failed attempt lands in the catch block with.
AttemptFailureMessage(res) ==
  CASE res = "timeout" -> "Message search timed out"
    [] res = "net_error" -> "Network Error"
    [] OTHER -> "Message not found at the specified time"

AttemptFailures == {"timeout", "net_error", "api_error", "empty"}

\* C4: every attempt before the last one made has failed (timeout, rejected
\* request, ok:false or no message) and was followed by another attempt; an
\* attempt answered with messages ends the search with the write call; a failed
\* attempt is followed by a backoff while fewer than 3 were made, and the third
\* failure ends the search with "Failed to find message: " and the message of
\* that third failure.
C4_AttemptFailuresRetryAndLastOneIsReported ==
  \A p \in Procs :
    LET st == proc[p]
        s == Searches(st)
        last == s[Len(s)]
    IN s # <<>> =>
         /\ Len(s) <= 3
         /\ \A i \in 1..(Len(s) - 1) : s[i].res \in AttemptFailures
         /\ last.res = "pending" => st.pc = "search_wait"
         /\ last.res = "ok" =>
              /\ LastCall(st).api \in {"chat.update", "chat.delete"}
              /\ \E i \in DOMAIN st.candidates : st.candidates[i] = st.message
         /\ (last.res \in AttemptFailures /\ Len(s) < 3) => st.pc = "backoff"
         /\ (last.res \in AttemptFailures /\ Len(s) = 3) =>
              /\ st.pc = "done"
              /\ st.result.kind = "error"
              /\ st.result.error = FindFailure(st, AttemptFailureMessage(last.res))
         /\ last.res \in AttemptFailures \cup {"pending", "ok"}

\* A search failed after a timeout, an ok:false answer and a rejected request.
C4_Witness ==
  \E p \in Procs :
    LET s == Searches(proc[p])
    IN /\ proc[p].pc = "done"
       /\ Len(s) = 3
       /\ s[1].res = "timeout" /\ s[2].res = "api_error" /\ s[3].res = "net_error"

\* |parseFloat(m.ts) - timestamp|, in tenths of a second.
Distance(m, timestamp) == Abs(ParseFloatTenths(m.ts) - 10 * timestamp)

\* findMessageByTimestamp has just returned a message found by a history query.
JustFoundRemotely(st) ==
  /\ st.pc \in {"update_wait", "delete_wait"}
  /\ ~st.hit
  /\ LastCall(st).res = "pending"

\* C5: the message returned after a history answer is the candidate with the
\* least distance to the target, the first such in the answer's order, and it
\* is cached under (channel, target).
C5_ClosestCandidateFirstOnTiesIsReturnedAndCached ==
  \A p \in Procs :
    LET st == proc[p]
        c == st.candidates
        key == CacheKey(st.channel, NumberToString(st.timestamp))
    IN JustFoundRemotely(st) =>
         /\ c # <<>>
         /\ \E i \in DOMAIN c :
              /\ c[i] = st.message
              /\ \A j \in DOMAIN c :
                   Distance(c[i], st.timestamp) <= Distance(c[j], st.timestamp)
              /\ \A j \in 1..(i - 1) :
                   Distance(c[j], st.timestamp) > Distance(c[i], st.timestamp)
         /\ CacheHas(cache, key)
         /\ cache[key] = [message |-> st.message, timestamp |-> now]

\* Two candidates at the same least distance: the first of the answer is chosen.
C5_Witness ==
  \E p \in Procs :
    LET st == proc[p]
        c == st.candidates
    IN /\ JustFoundRemotely(st)
       /\ Len(c) >= 2
       /\ Distance(c[1], st.timestamp) = Distance(c[2], st.timestamp)
       /\ c[1] # c[2]
       /\ st.message = c[1]

\* The message lies in the window [timestamp - 2, timestamp + 2].
InWindow(m, timestamp) ==
  /\ 10 * (timestamp - 2) <= ParseFloatTenths(m.ts)
  /\ ParseFloatTenths(m.ts) <= 10 * (timestamp + 2)

\* C6: the message returned after a history answer is at the least distance
\* from the target among all the messages the channel holds in the window.
C6_ReturnedMessageIsClosestOfTheWholeWindow ==
  \A p \in Procs :
    LET st == proc[p]
    IN JustFoundRemotely(st) =>
         \A m \in history[st.channel] :
           InWindow(m, st.timestamp) =>
             Distance(st.message, st.timestamp) <= Distance(m, st.timestamp)

\* The request reached the exported function (the handler did not answer 400).
Invoked(st) == st.pc # "idle" /\ st.result.kind # "invalid_input"

InvalidChannelFailure(st) ==
  [kind |-> "error",
   error |-> <<OpPrefix(st.op),
               "Invalid channel ID format. Must start with C (public), G (private), or D (DM)">>]

\* C7: an operation called with a channel that is empty or does not start with
\* C, G or D has failed with the invalid-channel error and has issued no
\* remote call.
C7_InvalidChannelFailsWithoutRemoteCall ==
  \A p \in Procs :
    LET st == proc[p]
    IN (Invoked(st) /\ (st.channel = <<>> \/ st.channel[1] \notin {"C", "G", "D"})) =>
         /\ st.calls = <<>>
         /\ st.pc = "done"
         /\ st.result = InvalidChannelFailure(st)

\* An operation was called with the empty channel and has failed.
C7_Witness ==
  \E p \in Procs :
    /\ Invoked(proc[p])
    /\ proc[p].channel = <<>>
    /\ proc[p].result = InvalidChannelFailure(proc[p])

TargetApis ==
  {"conversations.history", "chat.postMessage", "chat.scheduleMessage",
   "chat.update", "chat.delete"}
GuardApis == {"auth.test", "conversations.members", "conversations.join"}
CallErrors == {"api_error", "net_error"}

\* C8: a channel-targeting call is issued only after ensureBotInChannel's
\* deciding call (conversations.members or conversations.join) answered ok, with
\* nothing but channel-targeting calls in between; a failed join is the last
\* call of its operation, and an operation whose guard has not returned true
\* has issued no channel-targeting call.
C8_TargetCallsOnlyAfterGuardSucceeded ==
  \A p \in Procs :
    LET st == proc[p]
    IN /\ \A i \in DOMAIN st.calls :
            st.calls[i].api \in TargetApis =>
              \E j \in 1..(i - 1) :
                /\ st.calls[j].api \in {"conversations.members", "conversations.join"}
                /\ st.calls[j].res = "ok"
                /\ st.calls[j].channel = st.calls[i].channel
                /\ \A k \in (j + 1)..(i - 1) : st.calls[k].api \in TargetApis
       /\ \A i \in DOMAIN st.calls :
            (st.calls[i].api = "conversations.join" /\ st.calls[i].res \in CallErrors) =>
              i = Len(st.calls) /\ st.pc = "done" /\ st.result.kind = "error"
       /\ st.guard # "ok" =>
            \A i \in DOMAIN st.calls : st.calls[i].api \in GuardApis

\* A history query was issued right after a join that answered ok.
C8_Witness ==
  \E p \in Procs :
    \E i \in DOMAIN proc[p].calls :
      /\ i > 1
      /\ proc[p].calls[i].api = "conversations.history"
      /\ proc[p].calls[i - 1].api = "conversations.join"
      /\ proc[p].calls[i - 1].res = "ok"

\* Process p's sendMessage issues its chat.postMessage call in this step.
PostIssuedStep(p) ==
  /\ proc'[p].op = "send"
  /\ Len(proc'[p].calls) = Len(proc[p].calls) + 1
  /\ LastCall(proc'[p]).api = "chat.postMessage"

\* C9: when sendMessage issues chat.postMessage for a channel the bot is not
\* in at that moment's start, the step is the ok answer of a conversations.join
\* for that channel, which precedes the post call; the post call carries the
\* channel and the text the caller supplied.
C9_JoinSucceedsBeforePostWithTheSuppliedText ==
  [][\A p \in Procs :
       PostIssuedStep(p) =>
         LET st == proc'[p]
             n == Len(st.calls)
         IN /\ st.calls[n].channel = st.channel
            /\ st.text # "" => st.calls[n].text = st.text
            /\ st.channel \notin member =>
                 /\ proc[p].pc = "join_wait"
                 /\ st.calls[n - 1].api = "conversations.join"
                 /\ st.calls[n - 1].channel = st.channel
                 /\ st.calls[n - 1].res = "ok"
                 /\ st.channel \in member']_vars

\* A send whose post call, with the supplied text, follows a join answered ok.
C9_Witness ==
  \E p \in Procs :
    LET st == proc[p]
        n == Len(st.calls)
    IN /\ st.op = "send" /\ st.pc = "post_wait"
       /\ st.calls[n].api = "chat.postMessage"
       /\ st.calls[n].text = st.text /\ st.text = "hi"
       /\ st.calls[n - 1].api = "conversations.join"
       /\ st.calls[n - 1].res = "ok"

\* ensureBotInChannel is running or has thrown, for a channel of valid shape.
InGuard(st) == Invoked(st) /\ st.guard \in {"running", "failed"} /\ st.calls # <<>>

\* While ensureBotInChannel runs or after it threw: a check call that came back
\* with an error is followed by the next call of the membership path, and once
\* the check is over by a conversations.join; the guard has failed only on a
\* join that came back with an error, with that join's reason.
CheckErrorsLeadToJoin ==
  \A p \in Procs :
    LET st == proc[p]
        n == Len(st.calls)
    IN InGuard(st) =>
         /\ st.calls[1].api = "auth.test"
         /\ st.calls[1].res = "net_error" =>
              n >= 2 /\ st.calls[2].api = "conversations.join"
         /\ st.calls[1].res \in {"ok", "api_error"} =>
              n >= 2 /\ st.calls[2].api = "conversations.members"
         /\ (n >= 2 /\ st.calls[2].api = "conversations.members"
               /\ (st.calls[2].res \in CallErrors
                     \/ (st.calls[2].res = "ok" /\ st.calls[1].res = "api_error"))) =>
              n >= 3 /\ st.calls[3].api = "conversations.join"
         /\ st.pc = "done" <=> st.guard = "failed"
         /\ st.guard = "failed" =>
              /\ st.calls[n].api = "conversations.join"
              /\ st.calls[n].res \in CallErrors
              /\ st.result.kind = "error"
              /\ st.result.error =
                   <<OpPrefix(st.op), "Failed to join channel: ",
                     IF st.calls[n].res = "api_error" THEN "channel_not_found"
                     ELSE "Network Error">>

\* ensureBotInChannel returns true in this step without a join: auth.test and
\* conversations.members both answered ok and the bot is in the member list.
GuardPassesOnlyOnACleanCheck ==
  \A p \in Procs :
    (proc[p].pc = "members_wait" /\ proc'[p].guard = "ok") =>
      /\ proc[p].calls[1].res = "ok"
      /\ proc'[p].calls[2].res = "ok"
      /\ proc[p].channel \in member

\* C10: an error of the membership check (auth.test or conversations.members)
\* never fails the operation and never lets the guard pass: it leads to a
\* conversations.join, and the guard fails only when that join fails.
C10_MembershipCheckErrorsLeadToJoin ==
  []CheckErrorsLeadToJoin /\ [][GuardPassesOnlyOnACleanCheck]_vars

\* Both calls of the membership check came back with an error and the join
\* call is out.
C10_Witness ==
  \E p \in Procs :
    LET st == proc[p]
    IN /\ st.pc = "join_wait"
       /\ Len(st.calls) = 3
       /\ st.calls[1].res = "api_error"
       /\ st.calls[2].res = "net_error"
       /\ st.calls[3].api = "conversations.join"

\* The calls that are not the search: a failure of one of them is final.
SingleShotApis ==
  {"conversations.join", "chat.postMessage", "chat.scheduleMessage",
   "chat.update", "chat.delete"}

\* The reason a failed call of the api surfaces with.
CallFailureReason(call) ==
  IF call.res = "api_error"
  THEN CASE call.api = "conversations.join" -> "channel_not_found"
         [] call.api = "chat.postMessage" -> "not_in_channel"
         [] call.api = "chat.scheduleMessage" -> "time_in_past"
         [] call.api \in {"chat.update", "chat.delete"} -> "message_not_found"
         [] OTHER -> "invalid_auth"
  ELSE "Network Error"

FindStartStep(p) ==
  /\ proc[p].pc \in {"members_wait", "join_wait"}
  /\ proc'[p].guard = "ok"
  /\ proc'[p].op \in {"edit", "delete"}
  /\ proc'[p].pc # "done"

\* The key findMessageByTimestamp looks up: (channel, epoch seconds).
TargetKey(st) == [channel |-> st.channel, ts |-> [sec |-> st.timestamp, frac |-> ""]]

\* The lookup of a findMessageByTimestamp call: an entry younger than 30 s is
\* returned with no history query and the cache is left as it is; an entry of
\* 30 s or more is removed by the lookup, which goes on to the remote search.
LookupHonoursTtl ==
  \A p \in Procs :
    FindStartStep(p) =>
      LET st == proc'[p]
          key == TargetKey(st)
      IN /\ (key \in DOMAIN cache /\ now - cache[key].timestamp < 30000) =>
              /\ st.hit
              /\ st.message = cache[key].message
              /\ Searches(st) = <<>>
              /\ cache' = cache
         /\ (key \in DOMAIN cache /\ now - cache[key].timestamp >= 30000) =>
              /\ ~st.hit
              /\ Len(Searches(st)) = 1
              /\ DOMAIN cache' = DOMAIN cache \ {key}
              /\ \A k \in DOMAIN cache' : cache'[k] = cache[k]
         /\ key \notin DOMAIN cache =>
              ~st.hit /\ Len(Searches(st)) = 1 /\ cache' = cache

\* A key enters the cache only by a put of a successful step: the search's
\* write of what it found, the listing's writes, the edit's write.
AbsentUntilPut ==
  \A k \in DOMAIN cache' :
    k \notin DOMAIN cache =>
      \E p \in Procs :
        LET st == proc'[p]
        IN \/ /\ proc[p].pc = "search_wait"
              /\ st.pc \in {"update_wait", "delete_wait"}
              /\ k = TargetKey(st)
              /\ cache'[k] = [message |-> st.message, timestamp |-> now]
           \/ /\ proc[p].pc = "list_wait"
              /\ st.result.kind = "ok"
              /\ \E i \in DOMAIN st.candidates :
                   /\ k = [channel |-> st.channel, ts |-> st.candidates[i].ts]
                   /\ cache'[k] = [message |-> st.candidates[i], timestamp |-> now]
           \/ /\ proc[p].pc = "update_wait"
              /\ st.result.kind = "ok"
              /\ k = [channel |-> st.channel, ts |-> st.message.ts]

\* C12: findMessageByTimestamp's cache lookup honours the 30-second TTL: a
\* younger entry at the exact (channel, epoch seconds) key is returned with no
\* remote call and left unchanged; an entry of 30 s or more is removed by the
\* read, the search goes remote, and the key stays absent until a later put.
C12_CacheLookupHonoursTtl ==
  [][LookupHonoursTtl]_vars /\ [][AbsentUntilPut]_vars

\* After an edit of a message of the initial history succeeded (its search
\* cached the message under the target key) and an idle CACHE_TTL, a second
\* lookup of the same target has removed the entry and is searching remotely.
C12_Witness ==
  \E p \in Procs :
    LET st == proc[p]
    IN /\ started = 2 /\ idleJumps = 1
       /\ st.op \in {"edit", "delete"}
       /\ st.pc = "search_wait" /\ ~st.hit /\ Len(Searches(st)) = 1
       /\ TargetKey(st) \notin DOMAIN cache
       /\ \E m \in history[st.channel] : m.text = "hi" /\ m.ts.sec <= st.timestamp

\* getMessages has succeeded: every message of its answer is in the cache
\* under (channel, its own ts), cached now.
ListedMessagesAreCached ==
  \A p \in Procs :
    LET st == proc[p]
    IN (st.op = "list" /\ st.pc = "done" /\ st.result.kind = "ok") =>
         \A i \in DOMAIN st.candidates :
           LET k == [channel |-> st.channel, ts |-> st.candidates[i].ts]
           IN k \in DOMAIN cache
              /\ cache[k] = [message |-> st.candidates[i], timestamp |-> now]

\* A findMessageByTimestamp call that starts while the cache holds, under a
\* message's own ts, an entry younger than the TTL for a message of its channel
\* within 2 s of its target is answered from the cache, with no history query.
NearbyOwnTsEntryServesLookup ==
  \A p \in Procs :
    FindStartStep(p) =>
      LET st == proc'[p]
      IN (\E k \in DOMAIN cache :
            /\ k.channel = st.channel
            /\ cache[k].message.ts = k.ts
            /\ now - cache[k].timestamp < 30000
            /\ InWindow(cache[k].message, st.timestamp)) =>
           st.hit /\ Searches(st) = <<>>

\* C13: after getMessages succeeds every returned message is cached under
\* (channel, its own ts), and a later edit or delete on that channel within the
\* TTL whose target is near one of those messages is served from that entry,
\* without a remote history query.
C13_ListingServesLaterLookups ==
  []ListedMessagesAreCached /\ [][NearbyOwnTsEntryServesLookup]_vars

\* Process p is inside findMessageByTimestamp's retry loop.
InSearch(p) == proc[p].pc \in {"search_wait", "backoff"}

\* An attempt that starts sets its timeout 5000 ms ahead.
AttemptStartsItsTimeout ==
  \A p \in Procs :
    (proc'[p].pc = "search_wait" /\ proc'[p].calls # proc[p].calls) =>
      proc'[p].deadline = now' + 5000

\* C14: every findMessageByTimestamp terminates whatever the remote does, even
\* when no history query is ever answered: an attempt starts with a timeout
\* 5000 ms ahead, never waits past it, and ends; the retry loop is left, with
\* the message found or with the failure.
C14_SearchAlwaysTerminates ==
  /\ [][AttemptStartsItsTimeout]_vars
  /\ [](\A p \in Procs : proc[p].pc = "search_wait" => now <= proc[p].deadline)
  /\ \A p \in Procs : (proc[p].pc = "search_wait") ~> (proc[p].pc # "search_wait")
  /\ \A p \in Procs : InSearch(p) ~> ~InSearch(p)

\* A search ended after three attempts that all ran into their timeout.
C14_Witness ==
  \E p \in Procs :
    LET s == Searches(proc[p])
    IN /\ proc[p].pc = "done"
       /\ Len(s) = 3
       /\ \A i \in 1..3 : s[i].res = "timeout"
       /\ now = StartClock + 3 * 5000 + 500 + 1000

\* The days of month m of year y in the Gregorian calendar.
DaysInMonth(m, y) ==
  IF m = 2
  THEN IF (y % 4 = 0 /\ y % 100 # 0) \/ y % 400 = 0 THEN 29 ELSE 28
  ELSE IF m \in {4, 6, 9, 11} THEN 30 ELSE 31

\* dd/mm/yyyy with three numbers.
IsNumericDate(d) ==
  /\ Len(Split(d, "/")) = 3
  /\ \A i \in 1..3 : Split(d, "/")[i] # <<>> /\ Number(Split(d, "/")[i]).kind = "num"

\* The day, month and year of d compose a date of the calendar.
IsCalendarDate(d) ==
  LET day == Number(Split(d, "/")[1]).v
      month == Number(Split(d, "/")[2]).v
      year == Number(Split(d, "/")[3]).v
  IN month \in 1..12 /\ day >= 1 /\ day <= DaysInMonth(month, year)

\* C15: an operation given a dd/mm/yyyy whose numbers do not compose a calendar
\* date (31/02/2024, day 31 of a 30-day month) fails with the invalid-date
\* error of parseDateTime and no epoch value is computed for it: no call beyond
\* the membership guard's is issued.
C15_ImpossibleCalendarDatesAreRejected ==
  \A p \in Procs :
    LET st == proc[p]
    IN (/\ st.op \in {"schedule", "edit", "delete"}
        /\ st.guard = "ok"
        /\ IsNumericDate(st.date) /\ ~IsCalendarDate(st.date)) =>
         /\ st.pc = "done"
         /\ st.result.kind = "error"
         /\ st.result.error[2] = "Invalid date/time format: "
         /\ \A i \in DOMAIN st.calls : st.calls[i].api \in GuardApis

\* Every entry of the cache is a complete pair: a message with its ts and its
\* text, under the key of its channel, and the time it was cached at.
EntriesAreComplete ==
  \A k \in DOMAIN cache :
    /\ DOMAIN cache[k] = {"message", "timestamp"}
    /\ DOMAIN cache[k].message = {"ts", "text"}
    /\ cache[k].message.ts # NoTs
    /\ cache[k].timestamp \in StartClock..now
    /\ k.channel \in RemoteChannels

\* The entries process p's step puts, as key and value: the search's write of
\* what it found, the listing's writes, the edit's write.
PutsOf(p) ==
  LET st == proc'[p]
  IN IF proc[p].pc = "search_wait" /\ st.pc \in {"update_wait", "delete_wait"}
     THEN {<<TargetKey(st), [message |-> st.message, timestamp |-> now]>>}
     ELSE IF proc[p].pc = "list_wait" /\ st.result.kind = "ok"
     THEN {<<[channel |-> st.channel, ts |-> st.candidates[i].ts],
             [message |-> st.candidates[i], timestamp |-> now]>> :
             i \in DOMAIN st.candidates}
     ELSE IF proc[p].pc = "update_wait" /\ st.result.kind = "ok"
     THEN {<<[channel |-> st.channel, ts |-> st.message.ts],
             [message |-> [ts |-> st.message.ts, text |-> st.text],
              timestamp |-> now]>>}
     ELSE {}

\* An entry that a step has created or changed is, whole, the value of one put
\* of the process that took the step, whatever the entry held before and
\* whoever wrote it: the last write wins.
LastWriteWins ==
  \A k \in DOMAIN cache' :
    (k \notin DOMAIN cache \/ cache'[k] # cache[k]) =>
      \E p \in Procs : proc'[p] # proc[p] /\ <<k, cache'[k]>> \in PutsOf(p)

\* C16: with operations overlapping at their awaits the cache is never
\* corrupted: every entry is a complete (message, cachedAt) pair, and an entry
\* written by a step is exactly the value of one put of that step, also when
\* another operation wrote the same key before (last write wins).
C16_CacheIsNotCorruptedByOverlappingOperations ==
  []EntriesAreComplete /\ [][LastWriteWins]_vars

\* A listing came back while an edit was between two attempts of its search
\* (the clock had moved on from the start) and cached both messages of the
\* channel; the edit then found its message and overwrote that message's entry,
\* later on the clock: the other entry still carries the listing's time.
C16_Witness ==
  \E p, q \in Procs :
    /\ p # q
    /\ proc[p].op = "edit" /\ proc[p].pc = "done" /\ proc[p].result.kind = "ok"
    /\ proc[q].op = "list" /\ proc[q].pc = "done" /\ proc[q].result.kind = "ok"
    /\ \E k, l \in DOMAIN cache :
         /\ k = [channel |-> proc[p].channel, ts |-> proc[p].message.ts]
         /\ l # k /\ l.ts = cache[l].message.ts
         /\ \E i \in DOMAIN proc[q].candidates : proc[q].candidates[i].ts = k.ts
         /\ cache[k].message.text = proc[p].text
         /\ cache[k].timestamp = now
         /\ StartClock < cache[l].timestamp /\ cache[l].timestamp < now

\* The invocations of findMessageByTimestamp that can be in flight at a time:
\* one for each process that runs operations, which under SpecSeq is Worker.
InFlightAtMost == Cardinality({Worker})

\* C17: the history queries that are still outstanding after their attempt
\* timed out never number more than the attempts (MAX_RETRIES + 1) of the
\* invocations that can be in flight at a time, however many invocations have
\* completed before.
C17_AbandonedQueriesStayBounded ==
  abandoned <= (MAX_RETRIES + 1) * InFlightAtMost

\* C18: an operation that the route handler runs against the default channel
\* (the request named none) passes the guard's shape check: it has issued the
\* membership check's first call and has not failed with the invalid-channel
\* error.
C18_DefaultChannelPassesTheShapeCheck ==
  \A p \in Procs :
    LET st == proc[p]
    IN (Invoked(st) /\ st.channel = DEFAULT_CHANNEL) =>
         /\ st.calls # <<>>
         /\ st.result # InvalidChannelFailure(st)

\* The remote read or write an operation ends with.
FinalApi(op) ==
  CASE op = "send" -> "chat.postMessage"
    [] op = "schedule" -> "chat.scheduleMessage"
    [] op = "list" -> "conversations.history"
    [] op = "edit" -> "chat.update"
    [] op = "delete" -> "chat.delete"
    [] OTHER -> "none"

FinalWaits == {"post_wait", "schedule_wait", "list_wait", "update_wait", "delete_wait"}

\* An operation that returned the success envelope had its final call answered
\* ok; one whose final call came back ok:false or rejected has ended with the
\* operation's error carrying that call's reason.
EnvelopeFollowsTheFinalCall ==
  \A p \in Procs :
    LET st == proc[p]
    IN /\ st.result.kind = "ok" =>
            LastCall(st).api = FinalApi(st.op) /\ LastCall(st).res = "ok"
       /\ (/\ st.calls # <<>>
           /\ LastCall(st).api = FinalApi(st.op)
           /\ LastCall(st).res \in CallErrors
           /\ st.op \notin {"edit", "delete"} \/ LastCall(st).api # "conversations.history") =>
            /\ st.pc = "done"
            /\ st.result = [kind |-> "error",
                            error |-> <<OpPrefix(st.op), CallFailureReason(LastCall(st))>>]

\* The step in which an operation's final call fails leaves the whole cache as
\* it was; and an entry under a message's own ts (a ts with its fractional
\* part) is written or removed only by the step in which an edit, a delete or
\* a listing succeeds.
FailedFinalCallLeavesTheCache ==
  /\ \A p \in Procs :
       (proc[p].pc \in FinalWaits /\ proc'[p].result.kind = "error") => cache' = cache
  /\ \A k \in (DOMAIN cache) \cup (DOMAIN cache') :
       (/\ k.ts.frac # ""
        /\ \/ k \notin DOMAIN cache
           \/ k \notin DOMAIN cache'
           \/ cache'[k] # cache[k]) =>
         \E p \in Procs :
           /\ proc[p].pc \in {"list_wait", "update_wait", "delete_wait"}
           /\ proc'[p].result.kind = "ok"

\* C19: the success envelope is returned only when the operation's final
\* remote call answered ok; when that call fails the operation ends with its
\* operation-scoped error and neither writes nor removes a cache entry, so the
\* entry under (channel, message.ts) is as it was.
C19_FailedFinalCallChangesNothing ==
  []EnvelopeFollowsTheFinalCall /\ [][FailedFinalCallLeavesTheCache]_vars

\* A delete failed at chat.delete while the cache held, from a listing before,
\* the entry of the message under its own ts; the entry is still there.
C19_Witness ==
  \E p \in Procs :
    LET st == proc[p]
    IN /\ st.op = "delete" /\ st.pc = "done" /\ st.result.kind = "error"
       /\ st.calls # <<>>
       /\ LastCall(st).api = "chat.delete" /\ LastCall(st).res = "api_error"
       /\ [channel |-> st.channel, ts |-> st.message.ts] \in DOMAIN cache

\* C20: a findMessageByTimestamp that is answered from the cache returns each
\* message with the text the channel holds for it: after an edit succeeded,
\* never the text from before the edit.
C20_CacheHitReturnsTheEditedText ==
  [][\A p \in Procs :
       CacheHitStep(p) =>
         \A m \in history[proc'[p].channel] :
           m.ts = proc'[p].message.ts => proc'[p].message.text = m.text]_vars

====
